---- MODULE Spec2Model ----
(***************************************************************************)
(* WatchCBB: the game scraper's dedup and merge (SportsRefScrape), the     *)
(* season aggregator and the training feature compiler (utils).            *)
(*                                                                         *)
(* Encoding.  Team codes are naturals standing for their lexicographic     *)
(* rank (Python compares and sorts the code strings).  Dates are day       *)
(* numbers of consecutive calendar days; an ISO date string sorts and      *)
(* compares as its day number and "minus one day" is d - 1.  A CSV line    *)
(* is the tuple of its 35 comma separated fields.  A cell or an optional   *)
(* argument that may be None is <<>> when None and <<v>> otherwise.        *)
(***************************************************************************)
EXTENDS Integers, Sequences, FiniteSets, TLC

VARIABLES
    pc,         \* position of get_game_data: "start", "loop", "done", "raised"
    file,       \* the CSV file named by fout: header line, then data lines
    fout,       \* TRUE when an output file is given
    overwrite,  \* the overwrite argument
    startdate,  \* None or <<day>>
    enddate,    \* None or <<day>>
    gids,       \* date -> list of game ids registered for that date
    rows,       \* date -> list of CSV lines of that date
    nproc,      \* gamelog rows consumed so far in this call
    file0,      \* history: the file as it was when the call began
    emitted,    \* history: <<page's team, line>> built in this call, in extraction order
    dups,       \* history: the (team, date, opponent) rows dropped as duplicates
    lastloc,    \* history: location cell of the last row taken past the id check
    lastdate,   \* history: date of that row, 0 before the first
    sched,      \* schedule pages: date -> game_type cell, "" when the date has no entry
    game,       \* one game as the site shows it on its two teams' pages
    built,      \* page's team -> the line built from that page's row
    stats,      \* compute_season_stats: (season, team) -> accumulator
    played,     \* the game rows folded so far, in order
    tpc,        \* position of compile_training_data: "start", "loop", "done", "raised"
    sort,       \* the sort argument
    df,         \* the game table passed to compile_training_data
    irow,       \* index of the next row of df
    data        \* the feature rows emitted so far

scrapeVars == <<pc, file, fout, overwrite, startdate, enddate, gids, rows, nproc,
                file0, emitted, dups, lastloc, lastdate, sched>>
orientVars == <<game, built>>
statVars == <<stats, played>>
trainVars == <<tpc, sort, df, irow, data>>
vars == <<pc, file, fout, overwrite, startdate, enddate, gids, rows, nproc,
          file0, emitted, dups, lastloc, lastdate, sched, game, built,
          stats, played, tpc, sort, df, irow, data>>

(***************************************************************************)
(* Bounds of the model.                                                    *)
(***************************************************************************)
NumDates == 2      \* consecutive calendar days the pages may list
MaxRows == 2       \* gamelog rows one call of get_game_data consumes

\* Three team codes: two different pairs can then share a date and a team.
Teams == {1, 2, 3}
Dates == 1..NumDates

\* the season passed by the module's own call of get_game_data
SeasonArg == 2020

None == <<>>

\* The modelled calendar: the last day is February 1st, the days before it
\* are the last days of January.
Month(d) == IF d < NumDates THEN 1 ELSE 2

(***************************************************************************)
(* SportsRefScrape                                                         *)
(***************************************************************************)
scrape_stats == <<"pts", "fg", "fga", "fg3", "fg3a", "ft", "fta", "orb", "trb",
                  "ast", "stl", "blk", "tov", "pf">>

ScrapeStatSet == {scrape_stats[i] : i \in 1..Len(scrape_stats)}

Header == <<"Season", "DayNum", "Type", "WTeamID", "WScore", "LTeamID", "LScore",
            "WLoc", "NumOT", "WFGM", "WFGA", "WFGM3", "WFGA3", "WFTM", "WFTA",
            "WOR", "WDR", "WAst", "WTO", "WStl", "WBlk", "WPF", "LFGM", "LFGA",
            "LFGM3", "LFGA3", "LFTM", "LFTA", "LOR", "LDR", "LAst", "LTO", "LStl",
            "LBlk", "LPF">>

\* mutant: the two codes are not sorted
get_gid_unsorted(date, t1, t2) == <<date, t1, t2>>

\* sorted([t1, t2]) and the formatted id "{date}_{first}_{second}"
get_gid(date, t1, t2) ==
    IF t1 <= t2 THEN <<date, t1, t2>> ELSE <<date, t2, t1>>

getint(x) == IF x = None THEN 0 ELSE x[1]

\* mutant: an unrecognised code is let through (and coerced)
LocRaises_never(loc) == FALSE

\* loc==None -> "H", "@" -> "A", "N" -> "N", anything else raises
LocRaises(loc) == loc \notin {"", "@", "N"}

NormLoc(loc) == IF loc = "" THEN "H" ELSE IF loc = "@" THEN "A" ELSE "N"

\* "REG" -> "RG", "CTOURN" -> "CT", anything else kept
NormType(gtype) ==
    IF gtype = "REG" THEN "RG" ELSE IF gtype = "CTOURN" THEN "CT" ELSE gtype

\* the schedule page is fetched and consulted only under this condition
LookupActive(ed) == IF ed = None THEN TRUE ELSE Month(ed[1]) >= 2

\* the winner is the page's team only when it scored strictly more
OwnWin(statdict, opp_statdict) == statdict["pts"] > opp_statdict["pts"]

\* mutant: the location is left as the page gave it
FlipLoc_kept(loc) == loc

FlipLoc(loc) == IF loc = "H" THEN "A" ELSE IF loc = "A" THEN "H" ELSE loc

\* the formatted CSV line
FormatRow(season, date, gtype, wteam, lteam, loc, numot, wd, ld) ==
    <<season, date, gtype, wteam, wd["pts"], lteam, ld["pts"], loc, numot,
      wd["fg"], wd["fga"], wd["fg3"], wd["fg3a"], wd["ft"], wd["fta"], wd["orb"],
      wd["trb"] - wd["orb"], wd["ast"], wd["tov"], wd["stl"], wd["blk"], wd["pf"],
      ld["fg"], ld["fga"], ld["fg3"], ld["fg3a"], ld["ft"], ld["fta"], ld["orb"],
      ld["trb"] - ld["orb"], ld["ast"], ld["tov"], ld["stl"], ld["blk"], ld["pf"]>>

\* One gamelog row of `team`'s page turned into a CSV line: the cells are
\* read with getint, the two sides are oriented winner/loser and the
\* location is made relative to the winner.
BuildRow(season, team, date, opp, gtype, rawloc, numot, cells, opp_cells) ==
    LET statdict == [s \in ScrapeStatSet |-> getint(cells[s])]
        opp_statdict == [s \in ScrapeStatSet |-> getint(opp_cells[s])]
        loc == NormLoc(rawloc)
    IN  IF OwnWin(statdict, opp_statdict)
        THEN FormatRow(season, date, NormType(gtype), team, opp, loc, numot,
                       statdict, opp_statdict)
        ELSE FormatRow(season, date, NormType(gtype), opp, team, FlipLoc(loc), numot,
                       opp_statdict, statdict)

\* fields 1, 3 and 5 (0-based) of a line: date, winner, loser
LineDate(line) == line[2]
LineGid(line) == get_gid(line[2], line[4], line[6])

\* d[k].append(v), the bucket created empty when k is new
Bucket(d, k) == IF k \in DOMAIN d THEN d[k] ELSE <<>>
WithKey(d, k) == [x \in (DOMAIN d) \cup {k} |-> Bucket(d, x)]
AppendTo(d, k, v) == [x \in (DOMAIN d) \cup {k} |-> IF x = k THEN Append(Bucket(d, x), v)
                                                     ELSE Bucket(d, x)]

\* the loop over the old file's lines after the header
RECURSIVE ReadLines(_, _, _)
ReadLines(lines, g, r) ==
    IF lines = <<>> THEN <<g, r>>
    ELSE LET line == Head(lines)
         IN  ReadLines(Tail(lines),
                       AppendTo(g, LineDate(line), LineGid(line)),
                       AppendTo(r, LineDate(line), line))

SetMin(S) == CHOOSE x \in S : \A y \in S : x <= y

\* mutant: the dates are written in descending order
RECURSIVE WriteLines_descending(_, _)
WriteLines_descending(keys, r) ==
    IF keys = {} THEN <<>>
    ELSE LET d == SetMin(keys) IN WriteLines_descending(keys \ {d}, r) \o r[d]

\* for date in sorted(gids.keys()): for s in rows[date]: write(s)
RECURSIVE WriteLines(_, _)
WriteLines(keys, r) ==
    IF keys = {} THEN <<>>
    ELSE LET d == SetMin(keys) IN r[d] \o WriteLines(keys \ {d}, r)

\* gid in gids[date] or (datem1day in gids.keys() and gidm1day in gids[datem1day])
InList(x, s) == \E i \in 1..Len(s) : s[i] = x

IsDuplicate(g, date, team, opp) ==
    \/ InList(get_gid(date, team, opp), g[date])
    \/ /\ (date - 1) \in DOMAIN g
       /\ InList(get_gid(date - 1, team, opp), g[date - 1])

(***************************************************************************)
(* get_game_data, one step per loop iteration.                             *)
(***************************************************************************)

\* if fout is not None and overwrite==False: record everything in the old file
ReadPrior ==
    /\ pc = "start"
    /\ LET old == IF fout /\ ~overwrite THEN ReadLines(Tail(file), <<>>, <<>>)
                  ELSE <<<<>>, <<>>>>
       IN  /\ gids' = old[1]
           /\ rows' = old[2]
    /\ pc' = "loop"
    /\ UNCHANGED <<file, fout, overwrite, startdate, enddate, nproc>>
    /\ UNCHANGED <<file0, emitted, dups, lastloc, lastdate, sched>>

\* a row that the loop passes over before it computes an id: no id
\* attribute, no hyperlinked date, outside [startdate, enddate], or no
\* hyperlinked opponent
Passed(kind, date) ==
    \/ kind # "game"
    \/ startdate # None /\ startdate[1] > date
    \/ enddate # None /\ enddate[1] < date

SkipRow(kind, date) ==
    /\ pc = "loop"
    /\ nproc < MaxRows
    /\ Passed(kind, date)
    /\ nproc' = nproc + 1
    /\ UNCHANGED <<pc, file, fout, overwrite, startdate, enddate, gids, rows>>
    /\ UNCHANGED <<file0, emitted, dups, lastloc, lastdate, sched>>

\* the game is already registered: the date's buckets exist afterwards,
\* nothing else changes
DuplicateRow(team, date, opp) ==
    /\ pc = "loop"
    /\ nproc < MaxRows
    /\ ~Passed("game", date)
    /\ IsDuplicate(WithKey(gids, date), date, team, opp)
    /\ gids' = WithKey(gids, date)
    /\ rows' = WithKey(rows, date)
    /\ nproc' = nproc + 1
    /\ dups' = dups \cup {<<team, date, opp>>}
    /\ UNCHANGED <<pc, file, fout, overwrite, startdate, enddate>>
    /\ UNCHANGED <<file0, emitted, lastloc, lastdate, sched>>

\* the schedule page has no entry for the date (gtype = "") while the lookup
\* is active, or the location code is not recognised: the call raises after
\* the id has been registered
RowRaises(gtype, rawloc) ==
    \/ LookupActive(enddate) /\ gtype = ""
    \/ LocRaises(rawloc)

RaiseRow(team, date, opp, gtype, rawloc) ==
    /\ pc = "loop"
    /\ nproc < MaxRows
    /\ ~Passed("game", date)
    /\ ~IsDuplicate(WithKey(gids, date), date, team, opp)
    /\ RowRaises(gtype, rawloc)
    /\ gids' = AppendTo(gids, date, get_gid(date, team, opp))
    /\ rows' = WithKey(rows, date)
    /\ nproc' = nproc + 1
    /\ pc' = "raised"
    /\ lastloc' = rawloc
    /\ lastdate' = date
    /\ UNCHANGED <<file, fout, overwrite, startdate, enddate>>
    /\ UNCHANGED <<file0, emitted, dups, sched>>

\* a new game: its id is registered and its line appended to the date
EmitRow(season, team, date, opp, gtype, rawloc, numot, cells, opp_cells) ==
    /\ pc = "loop"
    /\ nproc < MaxRows
    /\ ~Passed("game", date)
    /\ ~IsDuplicate(WithKey(gids, date), date, team, opp)
    /\ ~RowRaises(gtype, rawloc)
    /\ LET string == BuildRow(season, team, date, opp,
                               IF LookupActive(enddate) THEN gtype ELSE "REG",
                               rawloc, numot, cells, opp_cells)
       IN  /\ gids' = AppendTo(gids, date, get_gid(date, team, opp))
           /\ rows' = AppendTo(rows, date, string)
           /\ emitted' = Append(emitted, <<team, string>>)
    /\ nproc' = nproc + 1
    /\ lastloc' = rawloc
    /\ lastdate' = date
    /\ UNCHANGED <<pc, file, fout, overwrite, startdate, enddate>>
    /\ UNCHANGED <<file0, dups, sched>>

\* the loops are over: if fout, the header and the lines by ascending date
WrittenFile(g, r) == <<Header>> \o WriteLines(DOMAIN g, r)

WriteOut ==
    /\ pc = "loop"
    /\ file' = IF fout THEN WrittenFile(gids, rows) ELSE file
    /\ pc' = "done"
    /\ UNCHANGED <<fout, overwrite, startdate, enddate, gids, rows, nproc>>
    /\ UNCHANGED <<file0, emitted, dups, lastloc, lastdate, sched>>

(***************************************************************************)
(* Inputs of the scraper's specification.                                  *)
(***************************************************************************)
\* a page's cells for one side: all absent (p = 0), or p points
Cells(p) == [s \in ScrapeStatSet |->
                IF p = 0 THEN None
                ELSE IF s = "trb" THEN <<p + 1>>
                ELSE IF s = "orb" THEN <<1>>
                ELSE <<p>>]

RowKinds == {"game", "noid", "nodate", "noopp"}
LocCodes == {"", "@", "N", "H"}

\* a page's team and the opponent of one of its rows
Matchups == {m \in Teams \X Teams : m[1] # m[2]}

\* The site the scraper reads is consistent: the two teams' pages show the
\* same game with mirrored cells.  On odd days the lower code wins, on even
\* days the higher; the lower code is at home, teams 1 and 3 meet on a
\* neutral court.
SiteWinner(date, a, b) ==
    IF date % 2 = 1 THEN (IF a < b THEN a ELSE b) ELSE (IF a < b THEN b ELSE a)

SitePts(team, date, opp) == IF SiteWinner(date, team, opp) = team THEN 2 ELSE 1

SiteLoc(team, opp) ==
    IF {team, opp} = {1, 3} THEN "N" ELSE IF team < opp THEN "" ELSE "@"

\* the line built from `team`'s page for its game against `opp`
SiteLine(team, date, opp) ==
    BuildRow(SeasonArg, team, date, opp, "REG", SiteLoc(team, opp), 0,
             Cells(SitePts(team, date, opp)), Cells(SitePts(opp, date, team)))

\* lines an older file may hold, in any order and with repetitions
PriorLines == {SiteLine(m[1], d, m[2]) : m \in Matchups, d \in Dates}

ShortTables == {<<>>} \cup {<<a>> : a \in PriorLines}
PriorTables == ShortTables \cup {<<a, b>> : a \in PriorLines, b \in PriorLines}

\* the argument combinations of the calls
Calls ==
    {[fout |-> TRUE, overwrite |-> FALSE, startdate |-> None, enddate |-> None],
     [fout |-> TRUE, overwrite |-> TRUE, startdate |-> None, enddate |-> None],
     [fout |-> FALSE, overwrite |-> FALSE, startdate |-> None, enddate |-> None],
     [fout |-> TRUE, overwrite |-> TRUE, startdate |-> <<2>>, enddate |-> <<NumDates>>]}

ScrapeIdle ==
    /\ pc = "idle" /\ file = <<>> /\ fout = FALSE /\ overwrite = FALSE
    /\ startdate = None /\ enddate = None /\ gids = <<>> /\ rows = <<>>
    /\ nproc = 0 /\ file0 = <<>> /\ emitted = <<>> /\ dups = {} /\ lastloc = ""
    /\ lastdate = 0 /\ sched = <<>>
OrientIdle == game = <<>> /\ built = <<>>
StatIdle == stats = <<>> /\ played = <<>>
TrainIdle == tpc = "idle" /\ sort = "" /\ df = <<>> /\ irow = 0 /\ data = <<>>

\* a call of get_game_data; the old file is read only when appending, the
\* other calls start from a short file; every game is a regular season game
Init ==
    /\ pc = "start"
    /\ \E c \in Calls :
          /\ fout = c.fout
          /\ overwrite = c.overwrite
          /\ startdate = c.startdate
          /\ enddate = c.enddate
          /\ file \in {<<Header>> \o q :
                          q \in (IF c.fout /\ ~c.overwrite THEN PriorTables
                                 ELSE ShortTables)}
    /\ gids = <<>>
    /\ rows = <<>>
    /\ nproc = 0
    /\ file0 = file
    /\ emitted = <<>>
    /\ dups = {}
    /\ lastloc = ""
    /\ lastdate = 0
    /\ sched = [d \in Dates |-> "REG"]
    /\ OrientIdle
    /\ StatIdle
    /\ TrainIdle

\* the location cell of a row: the site's, or an unrecognised code
RowLocs(team, opp) == {SiteLoc(team, opp), "H"}

Next ==
    \/ ReadPrior /\ UNCHANGED <<orientVars, statVars, trainVars>>
    \/ \E kind \in RowKinds, date \in Dates :
          SkipRow(kind, date) /\ UNCHANGED <<orientVars, statVars, trainVars>>
    \/ \E m \in Matchups, date \in Dates :
          DuplicateRow(m[1], date, m[2]) /\ UNCHANGED <<orientVars, statVars, trainVars>>
    \/ \E m \in Matchups, date \in Dates, rawloc \in LocCodes :
          /\ rawloc \in RowLocs(m[1], m[2])
          /\ RaiseRow(m[1], date, m[2], sched[date], rawloc)
          /\ UNCHANGED <<orientVars, statVars, trainVars>>
    \/ \E m \in Matchups, date \in Dates, rawloc \in LocCodes :
          /\ rawloc \in RowLocs(m[1], m[2])
          /\ EmitRow(SeasonArg, m[1], date, m[2], sched[date], rawloc, 0,
                     Cells(SitePts(m[1], date, m[2])), Cells(SitePts(m[2], date, m[1])))
          /\ UNCHANGED <<orientVars, statVars, trainVars>>
    \/ WriteOut /\ UNCHANGED <<orientVars, statVars, trainVars>>

Spec == Init /\ [][Next]_vars

(***************************************************************************)
(* Properties of get_game_data.                                            *)
(***************************************************************************)
\* the table the call started from: the old file's data lines when appending
PriorTable == IF fout /\ ~overwrite THEN Tail(file0) ELSE <<>>

\* every line held in the rows dictionary, as <<date bucket, position>>
RowSlots == UNION {{<<d, i>> : i \in 1..Len(rows[d])} : d \in DOMAIN rows}

\* the canonical id of a line: its date and its unordered pair of teams
CanonicalId(line) == <<line[2], {line[4], line[6]}>>

DistinctIds(lines) ==
    \A i, j \in 1..Len(lines) :
        i # j => CanonicalId(lines[i]) # CanonicalId(lines[j])

Adjacent(a, b) ==
    /\ {a[4], a[6]} = {b[4], b[6]}
    /\ (a[2] - b[2] = 1 \/ b[2] - a[2] = 1)

NoAdjacent(lines) ==
    \A i, j \in 1..Len(lines) : ~Adjacent(lines[i], lines[j])

RECURSIVE OnDate(_, _)
OnDate(lines, d) ==
    IF lines = <<>> THEN <<>>
    ELSE IF Head(lines)[2] = d THEN <<Head(lines)>> \o OnDate(Tail(lines), d)
    ELSE OnDate(Tail(lines), d)

NewLines == [i \in 1..Len(emitted) |-> emitted[i][2]]

\* C1: from no prior table, or one whose lines have pairwise distinct
\* canonical ids, no two lines of the merged rows (and of the written file)
\* have the same canonical id, whatever teams and rows have been processed.
C1_NoDuplicateIds ==
    (pc \in {"loop", "done"} /\ DistinctIds(PriorTable)) =>
        /\ \A a, b \in RowSlots :
              a # b => CanonicalId(rows[a[1]][a[2]]) # CanonicalId(rows[b[1]][b[2]])
        /\ (pc = "done" /\ fout) => DistinctIds(Tail(file))

\* C1 witness: a game built from one team's page was met again on the
\* other team's page, dropped there, and the output was written.
C1_Witness ==
    /\ pc = "done"
    /\ fout
    /\ \E k \in 1..Len(emitted), x \in dups :
          /\ x[1] # emitted[k][1]
          /\ CanonicalId(emitted[k][2]) = <<x[2], {x[1], x[3]}>>

\* C2: (given no two prior lines with one team pair on adjacent days) the
\* merged rows never hold two lines with the same team pair on adjacent
\* calendar days, whichever of the two days was registered first.
C2_NoAdjacentDays ==
    (pc \in {"loop", "done"} /\ NoAdjacent(PriorTable)) =>
        /\ \A a, b \in RowSlots : ~Adjacent(rows[a[1]][a[2]], rows[b[1]][b[2]])
        /\ (pc = "done" /\ fout) => NoAdjacent(Tail(file))

\* C3: appending to a prior table, the written file is the header followed
\* by lines of ascending date, and the lines of each date are the prior
\* lines of that date in file order followed by the new lines of that date
\* in extraction order.
C3_PriorPreserved ==
    (pc = "done" /\ fout /\ ~overwrite) =>
        LET out == Tail(file)
        IN  /\ file[1] = Header
            /\ \A i \in 1..(Len(out) - 1) : out[i][2] <= out[i + 1][2]
            /\ \A d \in Dates :
                  OnDate(out, d) = OnDate(PriorTable, d) \o OnDate(NewLines, d)

\* C3 witness: a written file in which some date holds two different prior
\* lines followed by a new line, and a new line precedes a prior line of a
\* later date.
C3_Witness ==
    /\ pc = "done" /\ fout /\ ~overwrite
    /\ \E d \in Dates :
          /\ Len(OnDate(PriorTable, d)) = 2
          /\ OnDate(PriorTable, d)[1] # OnDate(PriorTable, d)[2]
          /\ Len(OnDate(NewLines, d)) >= 1
    /\ \E i \in 1..Len(NewLines), j \in 1..Len(PriorTable) :
          NewLines[i][2] < PriorTable[j][2]

\* C5: a row taken past the id check whose location cell is none of blank,
\* "@", "N" makes the call raise, no line is built from it, and after a
\* raise the file holds exactly what it held when the call began.
C5_RaiseKeepsFile ==
    /\ (lastloc \notin {"", "@", "N"}) => pc = "raised"
    /\ pc = "raised" =>
          /\ file = file0
          /\ Len(emitted) < nproc

\* C5 witness: the call raised on an unrecognised location after it had
\* already built a line, with a non-empty file on disk.
C5_Witness ==
    /\ pc = "raised"
    /\ lastloc = "H"
    /\ Len(emitted) >= 1
    /\ Len(file0) > 1
    /\ fout

(***************************************************************************)
(* The game type of a row.  The schedule pages may list any game type for  *)
(* a date, or have no entry for it; the calls differ in their end date,    *)
(* which decides whether the schedule page is consulted at all.            *)
(***************************************************************************)
TypeCodes == {"", "REG", "CTOURN", "NCAA"}

TypeCalls ==
    {[fout |-> TRUE, overwrite |-> TRUE, startdate |-> None, enddate |-> None],
     [fout |-> TRUE, overwrite |-> TRUE, startdate |-> None, enddate |-> <<1>>],
     [fout |-> TRUE, overwrite |-> TRUE, startdate |-> None, enddate |-> <<NumDates>>]}

InitType ==
    /\ pc = "start"
    /\ \E c \in TypeCalls :
          /\ fout = c.fout
          /\ overwrite = c.overwrite
          /\ startdate = c.startdate
          /\ enddate = c.enddate
    /\ file = <<Header>>
    /\ gids = <<>>
    /\ rows = <<>>
    /\ nproc = 0
    /\ file0 = file
    /\ emitted = <<>>
    /\ dups = {}
    /\ lastloc = ""
    /\ lastdate = 0
    /\ sched \in [Dates -> TypeCodes]
    /\ OrientIdle
    /\ StatIdle
    /\ TrainIdle

SpecType == InitType /\ [][Next]_vars

\* the game type field of the last line built
LastType == emitted[Len(emitted)][2][3]

\* the last row taken past the id check had no entry in the lookup and a
\* recognised location cell
MissingEntry ==
    /\ lastdate # 0
    /\ sched[lastdate] = ""
    /\ ~LocRaises(lastloc)

\* C11: with no end date given, a row whose date has no entry in the
\* schedule lookup does not make the call fail and is emitted with game
\* type "RG"; a row whose date has an entry "REG" is emitted with "RG" and
\* one with "CTOURN" with "CT".
C11_MissingTypeDefaultsToRG ==
    enddate = None =>
        /\ MissingEntry =>
              /\ pc # "raised"
              /\ emitted # <<>>
              /\ LineDate(emitted[Len(emitted)][2]) = lastdate
              /\ LastType = "RG"
        /\ \A i \in 1..Len(emitted) :
              LET line == emitted[i][2]
              IN  /\ sched[LineDate(line)] = "REG" => line[3] = "RG"
                  /\ sched[LineDate(line)] = "CTOURN" => line[3] = "CT"

(***************************************************************************)
(* The row builder on the two pages of one game.  The pages mirror each    *)
(* other: each shows its own team's cells first and the location from its  *)
(* own team's side.                                                        *)
(***************************************************************************)
MaxPts == 2      \* a side's cells: absent, or 1..MaxPts points

MirrorLoc(rawloc) == IF rawloc = "" THEN "@" ELSE IF rawloc = "@" THEN "" ELSE rawloc

Games ==
    [x : Teams, y : Teams, date : Dates, xloc : {"", "@", "N"},
     xpts : 0..MaxPts, ypts : 0..MaxPts, gtype : {"REG", "CTOURN", "NCAA"},
     numot : 0..1]

\* the row of the game on team t's page, built by the scraper
PageLine(g, t) ==
    IF t = g.x
    THEN BuildRow(SeasonArg, g.x, g.date, g.y, g.gtype, g.xloc, g.numot,
                  Cells(g.xpts), Cells(g.ypts))
    ELSE BuildRow(SeasonArg, g.y, g.date, g.x, g.gtype, MirrorLoc(g.xloc), g.numot,
                  Cells(g.ypts), Cells(g.xpts))

InitOrient ==
    /\ game \in {g \in Games : g.x # g.y}
    /\ built = <<>>
    /\ ScrapeIdle
    /\ StatIdle
    /\ TrainIdle

ExtractPage(t) ==
    /\ t \in {game.x, game.y}
    /\ t \notin DOMAIN built
    /\ built' = [u \in (DOMAIN built) \cup {t} |->
                    IF u = t THEN PageLine(game, t) ELSE built[u]]
    /\ UNCHANGED game

NextOrient ==
    \E t \in Teams : ExtractPage(t) /\ UNCHANGED <<scrapeVars, statVars, trainVars>>

SpecOrient == InitOrient /\ [][NextOrient]_vars

\* the location code of the game seen from team t: home, away or neutral
SideLoc(g, t) ==
    LET raw == IF t = g.x THEN g.xloc ELSE MirrorLoc(g.xloc)
    IN  IF raw = "" THEN "H" ELSE IF raw = "@" THEN "A" ELSE "N"

\* C4: for a game whose point totals differ, the line built from either
\* team's page names the higher scoring team as winner and the other as
\* loser, gives the location from the winner's side, and the lines built
\* from the two pages are the same line.
C4_SameRecordFromEitherPage ==
    (game # <<>> /\ game.xpts # game.ypts) =>
        LET hi == IF game.xpts > game.ypts THEN game.x ELSE game.y
            lo == IF game.xpts > game.ypts THEN game.y ELSE game.x
        IN  /\ \A t \in DOMAIN built :
                  /\ built[t][4] = hi
                  /\ built[t][6] = lo
                  /\ built[t][5] > built[t][7]
                  /\ built[t][8] = SideLoc(game, hi)
            /\ \A t, u \in DOMAIN built : built[t] = built[u]

\* C4 witness: both pages of a game have been extracted, the row of the
\* second page belongs to the loser, who played at home.
C4_Witness ==
    /\ game # <<>>
    /\ DOMAIN built = {game.x, game.y}
    /\ game.xpts > game.ypts
    /\ game.xloc = "@"
    /\ built[game.y][8] = "A"

(***************************************************************************)
(* utils.compute_season_stats                                              *)
(*                                                                         *)
(* A row of the game table is a function from column names to values.     *)
(* stats is the nested dictionary stats[year][team_id][stat_name].        *)
(***************************************************************************)
MaxGames == 3      \* rows of the game table folded by one call

(***************************************************************************)
(* Floating-point arithmetic of the possession columns.  row.poss is a    *)
(* Python float; += on totPoss and / in compile_training_data are         *)
(* IEEE-754 binary64 operations, rounding to 53 significant bits, ties to  *)
(* even.  A double is <<hi, lo>>, the number (hi * Limb + lo) * 2^-48;     *)
(* the values met here are non-negative, below 1024, and multiples of      *)
(* 2^-48, so the pair holds them exactly.                                  *)
(***************************************************************************)
Limb == 2^26

Zero == <<0, 0>>

Norm(hi, lo) == <<hi + lo \div Limb, lo % Limb>>

\* the number of bits of x
BitLen(x) == CHOOSE n \in 0..30 : x < 2^n /\ (n = 0 \/ x >= 2^(n - 1))

Bits(a) == IF a[1] > 0 THEN 26 + BitLen(a[1]) ELSE BitLen(a[2])

\* the unit in the last place of a double, in units of 2^-48
Ulp(a) == IF Bits(a) > 53 THEN 2^(Bits(a) - 53) ELSE 1

\* the double nearest to a + r/d (0 <= r < d), ties to the even mantissa
RoundNearestEven(a, r, d) ==
    LET q == Ulp(a)
        rem == a[2] % q
        twice == 2 * (rem * d + r)
        odd == ((a[2] - rem) \div q) % 2 = 1
        up == twice > q * d \/ (twice = q * d /\ odd)
    IN  Norm(a[1], a[2] - rem + (IF up THEN q ELSE 0))

\* a + b on floats
FloatAdd(a, b) == RoundNearestEven(Norm(a[1] + b[1], a[2] + b[2]), 0, 1)

\* a / (1.0 + 0.125*n): the divisor is (8 + n)/8 exactly
FloatDivOT(a, n) ==
    LET d == 8 + n
        t == (a[1] % d) * Limb + a[2]
        r1 == t % d
    IN  RoundNearestEven(Norm(8 * (a[1] \div d), 8 * (t \div d) + (8 * r1) \div d),
                         (8 * r1) % d, d)

\* the possession counts of the game tables: 53.4, 54.72 and 56.4
PossColumn == <<<<223975833, 40265318>>, <<229512314, 59055800>>, <<236558745, 40265318>>>>

STATNAMES == <<"Score", "FGM", "FGA", "FGM3", "FGA3", "FTM", "FTA", "OR", "DR",
               "Ast", "TO", "Stl", "Blk", "PF">>

StatNameSet == {STATNAMES[i] : i \in 1..Len(STATNAMES)}

HistoryKeys == {"opps", "scores", "HA", "poss", "nOT"}
CounterKeys == {"wins", "losses", "totOT", "totPoss"}

\* the key and column names built from a stat name: "T"+sn, "O"+sn, "W"+sn, "L"+sn
TKey == [sn \in StatNameSet |-> "T" \o sn]
OKey == [sn \in StatNameSet |-> "O" \o sn]
WCol == [sn \in StatNameSet |-> "W" \o sn]
LCol == [sn \in StatNameSet |-> "L" \o sn]

TotalKeys == {TKey[sn] : sn \in StatNameSet} \cup {OKey[sn] : sn \in StatNameSet}

\* initialize values if we haven't seen this team yet
NewTeam == [k \in CounterKeys \cup HistoryKeys \cup TotalKeys |->
               IF k \in HistoryKeys THEN <<>> ELSE IF k = "totPoss" THEN Zero ELSE 0]

\* if year not in stats: stats[year] = {}
WithYear(st, year) ==
    [y \in (DOMAIN st) \cup {year} |-> IF y \in DOMAIN st THEN st[y] ELSE <<>>]

\* if tid not in stats[year]: the zeroed accumulator
WithTeam(st, year, tid) ==
    [st EXCEPT ![year] =
        [t \in (DOMAIN st[year]) \cup {tid} |->
            IF t \in DOMAIN st[year] THEN st[year][t] ELSE NewTeam]]

\* 'ANH'.find(WLoc): the index at which WLoc starts as a substring of
\* "ANH" (the empty string at 0), -1 when it is not a substring
ANH_find(wloc) ==
    IF wloc \in {"", "A", "AN", "ANH"} THEN 0
    ELSE IF wloc \in {"N", "NH"} THEN 1
    ELSE IF wloc = "H" THEN 2
    ELSE -1

\* 'HNA'['ANH'.find(WLoc)]: index -1 is the last letter
LoserLoc(wloc) ==
    LET i == ANH_find(wloc)
    IN  IF i = 0 THEN "H" ELSE IF i = 1 THEN "N" ELSE "A"

\* What one game does to one key of the accumulator of team tid.  The code
\* updates the winner's entry and then the loser's, key by key; the two
\* conditional steps below are those two statements, in that order.
StatOf == [key \in TotalKeys |-> CHOOSE sn \in StatNameSet : key \in {TKey[sn], OKey[sn]}]

\* mutant: the loser's opponent total accrues the loser's own value
StatTotal_typo(v, row, tid, key) ==
    LET sn == StatOf[key]
        own == key = TKey[sn]
        v1 == IF tid = row["WTeamID"]
              THEN v + (IF own THEN row[WCol[sn]] ELSE row[LCol[sn]]) ELSE v
    IN  IF tid = row["LTeamID"] THEN v1 + row[LCol[sn]] ELSE v1

\* the loop over STATNAMES: "T"+sn and "O"+sn of winner and loser
StatTotal(v, row, tid, key) ==
    LET sn == StatOf[key]
        own == key = TKey[sn]
        v1 == IF tid = row["WTeamID"]
              THEN v + (IF own THEN row[WCol[sn]] ELSE row[LCol[sn]]) ELSE v
    IN  IF tid = row["LTeamID"]
        THEN v1 + (IF own THEN row[LCol[sn]] ELSE row[WCol[sn]]) ELSE v1

\* mutant: the loser's overtime total is assigned, not accumulated
Counter_assign(v, row, tid, key) ==
    LET isw == tid = row["WTeamID"]
        isl == tid = row["LTeamID"]
    IN  IF key = "wins" THEN (IF isw THEN v + 1 ELSE v)
        ELSE IF key = "losses" THEN (IF isl THEN v + 1 ELSE v)
        ELSE IF key = "totOT"
             THEN (IF isl THEN row["NumOT"] ELSE IF isw THEN v + row["NumOT"] ELSE v)
        ELSE LET v1 == IF isw THEN FloatAdd(v, row["poss"]) ELSE v
             IN  IF isl THEN FloatAdd(v1, row["poss"]) ELSE v1

\* wins, losses, totOT, totPoss
Counter(v, row, tid, key) ==
    LET isw == tid = row["WTeamID"]
        isl == tid = row["LTeamID"]
    IN  IF key = "wins" THEN (IF isw THEN v + 1 ELSE v)
        ELSE IF key = "losses" THEN (IF isl THEN v + 1 ELSE v)
        ELSE IF key = "totOT"
             THEN (IF isw THEN v + row["NumOT"] ELSE v) + (IF isl THEN row["NumOT"] ELSE 0)
        ELSE LET v1 == IF isw THEN FloatAdd(v, row["poss"]) ELSE v
             IN  IF isl THEN FloatAdd(v1, row["poss"]) ELSE v1

\* the entry the winner's list gets, and the one the loser's list gets
WinnerEntry(row, key) ==
    IF key = "opps" THEN row["LTeamID"]
    ELSE IF key = "scores" THEN <<row["WScore"], row["LScore"]>>
    ELSE IF key = "HA" THEN row["WLoc"]
    ELSE IF key = "poss" THEN row["poss"]
    ELSE row["NumOT"]

LoserEntry(row, key) ==
    IF key = "opps" THEN row["WTeamID"]
    ELSE IF key = "scores" THEN <<row["LScore"], row["WScore"]>>
    ELSE IF key = "HA" THEN LoserLoc(row["WLoc"])
    ELSE IF key = "poss" THEN row["poss"]
    ELSE row["NumOT"]

\* mutant: the loser's overtime history is not appended
History_short(v, row, tid, key) ==
    LET v1 == IF tid = row["WTeamID"] THEN Append(v, WinnerEntry(row, key)) ELSE v
    IN  IF tid = row["LTeamID"] /\ key # "nOT" THEN Append(v1, LoserEntry(row, key)) ELSE v1

\* opps, scores, HA, poss, nOT
History(v, row, tid, key) ==
    LET v1 == IF tid = row["WTeamID"] THEN Append(v, WinnerEntry(row, key)) ELSE v
    IN  IF tid = row["LTeamID"] THEN Append(v1, LoserEntry(row, key)) ELSE v1

UpdateTeam(acc, row, tid) ==
    [key \in DOMAIN acc |->
        IF key \in TotalKeys THEN StatTotal(acc[key], row, tid, key)
        ELSE IF key \in CounterKeys THEN Counter(acc[key], row, tid, key)
        ELSE History(acc[key], row, tid, key)]

\* one iteration of the loop over the rows of df
AddGame(st, row) ==
    LET year == row["Season"]
        s0 == WithTeam(WithTeam(WithYear(st, year), year, row["WTeamID"]),
                       year, row["LTeamID"])
    IN  [s0 EXCEPT ![year] =
            [t \in DOMAIN s0[year] |->
                IF t \in {row["WTeamID"], row["LTeamID"]}
                THEN UpdateTeam(s0[year][t], row, t)
                ELSE s0[year][t]]]

\* the whole function on a game table
RECURSIVE FoldGames(_, _, _)
FoldGames(st, tbl, i) ==
    IF i > Len(tbl) THEN st ELSE FoldGames(AddGame(st, tbl[i]), tbl, i + 1)

compute_season_stats(tbl) == FoldGames(<<>>, tbl, 1)

(***************************************************************************)
(* The game tables of the aggregator's specification.  The box score of a *)
(* game is fixed by its season and its teams; k tells the games apart.    *)
(***************************************************************************)
StatIndex(sn) == CHOOSE i \in 1..Len(STATNAMES) : STATNAMES[i] = sn

BoxKind(season, w, l) == (IF w < l THEN 1 ELSE 2) + (IF season = 2019 THEN 1 ELSE 0)

\* which possession count a game has: every team meets all three
PossKind(w, l) == ((2 * (w - 1) + (IF l > w THEN l - 1 ELSE l) - 1) % 3) + 1

GameRow(season, w, l) ==
    LET k == BoxKind(season, w, l)
    IN  [c \in {"Season", "WTeamID", "LTeamID", "NumOT", "poss", "WLoc"}
               \cup {WCol[sn] : sn \in StatNameSet}
               \cup {LCol[sn] : sn \in StatNameSet} |->
            IF c = "Season" THEN season
            ELSE IF c = "WTeamID" THEN w
            ELSE IF c = "LTeamID" THEN l
            ELSE IF c = "NumOT" THEN k - 1
            ELSE IF c = "poss" THEN PossColumn[PossKind(w, l)]
            ELSE IF c = "WLoc" THEN <<"H", "A", "N">>[k]
            ELSE IF \E sn \in StatNameSet : c = WCol[sn]
                 THEN k + StatIndex(CHOOSE sn \in StatNameSet : c = WCol[sn])
            ELSE StatIndex(CHOOSE sn \in StatNameSet : c = LCol[sn])]

\* every pairing of the three teams in 2020, teams 1 and 2 also in 2019
GameRows ==
    {GameRow(2020, m[1], m[2]) : m \in Matchups} \cup
    {GameRow(2019, 1, 2), GameRow(2019, 2, 1)}

InitStats ==
    /\ stats = <<>>
    /\ played = <<>>
    /\ ScrapeIdle
    /\ OrientIdle
    /\ TrainIdle

FoldRow(row) ==
    /\ Len(played) < MaxGames
    /\ stats' = AddGame(stats, row)
    /\ played' = Append(played, row)

NextStats ==
    \E row \in GameRows : FoldRow(row) /\ UNCHANGED <<scrapeVars, orientVars, trainVars>>

SpecStats == InitStats /\ [][NextStats]_vars

(***************************************************************************)
(* Properties of compute_season_stats.                                     *)
(***************************************************************************)
\* the (season, team) accumulators that exist
Accumulators(st) == UNION {{<<y, t>> : t \in DOMAIN st[y]} : y \in DOMAIN st}

\* C6: after any prefix of any game sequence, each of the five history
\* lists of every (season, team) accumulator is as long as its wins plus
\* its losses.
C6_HistoryLengths ==
    \A a \in Accumulators(stats) :
        \A k \in HistoryKeys :
            Len(stats[a[1]][a[2]][k]) =
                stats[a[1]][a[2]]["wins"] + stats[a[1]][a[2]]["losses"]

\* C6 witness: a team that has both won and lost in one season.
C6_Witness ==
    \E a \in Accumulators(stats) :
        /\ stats[a[1]][a[2]]["wins"] >= 1
        /\ stats[a[1]][a[2]]["losses"] >= 1
        /\ Len(stats[a[1]][a[2]]["nOT"]) >= 2

\* the totals of every (season, team), without the history lists
Totals(st) ==
    [y \in DOMAIN st |->
        [t \in DOMAIN st[y] |->
            [k \in CounterKeys \cup TotalKeys |-> st[y][t][k]]]]

\* the totals that are sums of integers
Counts(st) ==
    [y \in DOMAIN st |->
        [t \in DOMAIN st[y] |->
            [k \in (CounterKeys \ {"totPoss"}) \cup TotalKeys |-> st[y][t][k]]]]

\* the rearrangements of a game table
Shuffles(tbl) ==
    {[i \in 1..Len(tbl) |-> tbl[p[i]]] : p \in Permutations(1..Len(tbl))}

Count(list, v) == Cardinality({i \in 1..Len(list) : list[i] = v})

SameEntries(a, b) ==
    /\ Len(a) = Len(b)
    /\ \A i \in 1..Len(a) : Count(a, a[i]) = Count(b, a[i])

SameHistories(st, other) ==
    \A a \in Accumulators(st) :
        \A k \in HistoryKeys : SameEntries(other[a[1]][a[2]][k], st[a[1]][a[2]][k])

\* the distance of two doubles, in units of 2^-48
Distance(a, b) ==
    LET diff == (a[1] - b[1]) * Limb + (a[2] - b[2])
    IN  IF diff < 0 THEN 0 - diff ELSE diff

\* two sums of the same n floats in different orders: each addition rounds
\* by at most half a unit in the last place
WithinRounding(a, b, n) ==
    Distance(a, b) <= n * (IF Ulp(a) > Ulp(b) THEN Ulp(a) ELSE Ulp(b))

\* C7 as claimed: for every rearrangement of the game table the wins,
\* losses, totOT, totPoss and the T and O totals of every (season, team)
\* are identical to the ones the given order produced, and each history
\* list holds the same entries.
C7_OrderIndependentTotals ==
    \A tbl \in Shuffles(played) :
        LET other == compute_season_stats(tbl)
        IN  /\ Totals(other) = Totals(stats)
            /\ SameHistories(stats, other)

\* C7 amended: for every rearrangement of the game table the wins, losses,
\* totOT and the T and O totals of every (season, team) are identical and
\* each history list holds the same entries; totPoss, a sum of floats in
\* input order, agrees up to the rounding of the additions.
C7_OrderIndependentCounts ==
    \A tbl \in Shuffles(played) :
        LET other == compute_season_stats(tbl)
        IN  /\ Counts(other) = Counts(stats)
            /\ SameHistories(stats, other)
            /\ \A a \in Accumulators(stats) :
                  WithinRounding(other[a[1]][a[2]]["totPoss"],
                                 stats[a[1]][a[2]]["totPoss"], Len(played))

\* C7 witness: a table of three games with different overtime counts, a
\* rearrangement of which leaves a team with another totPoss.
C7_Witness ==
    /\ Len(played) = 3
    /\ played[1]["NumOT"] # played[2]["NumOT"]
    /\ \E tbl \in Shuffles(played) :
          \E a \in Accumulators(stats) :
              compute_season_stats(tbl)[a[1]][a[2]]["totPoss"]
                  # stats[a[1]][a[2]]["totPoss"]

\* the value a key holds, zero before the team's first game of the season
Held(st, year, tid, key) ==
    IF year \in DOMAIN st /\ tid \in DOMAIN st[year] THEN st[year][tid][key]
    ELSE NewTeam[key]

RECURSIVE SumOver(_, _, _, _)
SumOver(st, year, tids, key) ==
    IF tids = {} THEN 0
    ELSE LET t == CHOOSE x \in tids : TRUE
         IN  st[year][t][key] + SumOver(st, year, tids \ {t}, key)

GamesOf(year) == Cardinality({i \in 1..Len(played) : played[i]["Season"] = year})

\* within each season the T totals and the O totals sum to the same, and
\* wins and losses both sum to the number of games
Balanced ==
    \A y \in DOMAIN stats :
        /\ \A sn \in StatNameSet :
              SumOver(stats, y, DOMAIN stats[y], TKey[sn]) =
              SumOver(stats, y, DOMAIN stats[y], OKey[sn])
        /\ SumOver(stats, y, DOMAIN stats[y], "wins") = GamesOf(y)
        /\ SumOver(stats, y, DOMAIN stats[y], "losses") = GamesOf(y)

\* one game: the winner's T grows by the W value and its O by the L value,
\* the loser's T by the L value and its O by the W value; possessions and
\* overtimes are added alike to both
Symmetric ==
    Len(played') = Len(played) + 1 =>
        LET row == played'[Len(played')]
            y == row["Season"]
            w == row["WTeamID"]
            l == row["LTeamID"]
        IN  /\ \A sn \in StatNameSet :
                  /\ stats'[y][w][TKey[sn]] = Held(stats, y, w, TKey[sn]) + row[WCol[sn]]
                  /\ stats'[y][w][OKey[sn]] = Held(stats, y, w, OKey[sn]) + row[LCol[sn]]
                  /\ stats'[y][l][TKey[sn]] = Held(stats, y, l, TKey[sn]) + row[LCol[sn]]
                  /\ stats'[y][l][OKey[sn]] = Held(stats, y, l, OKey[sn]) + row[WCol[sn]]
            /\ \A t \in {w, l} :
                  /\ stats'[y][t]["totPoss"] =
                        FloatAdd(Held(stats, y, t, "totPoss"), row["poss"])
                  /\ stats'[y][t]["totOT"] = Held(stats, y, t, "totOT") + row["NumOT"]

\* C10: every game updates its two teams symmetrically, and so in every
\* season the T totals summed over the teams equal the matching O totals,
\* and the wins and the losses both sum to the number of games.
C10_SymmetricUpdates == []Balanced /\ [][Symmetric]_vars

\* C10 witness: a season with two games between three teams, one team
\* having won one and lost one.
C10_Witness ==
    \E y \in DOMAIN stats :
        /\ GamesOf(y) = 2
        /\ Cardinality(DOMAIN stats[y]) = 3
        /\ \E t \in DOMAIN stats[y] :
              stats[y][t]["wins"] = 1 /\ stats[y][t]["losses"] = 1

(***************************************************************************)
(* utils.compile_training_data                                             *)
(*                                                                         *)
(* The ratings in season_stats_dict come from the efficiency solver and    *)
(* are inputs here.  A rank is <<r>>, or <<>> when the team has none.      *)
(* result holds dowin as a number (True is 1).                             *)
(***************************************************************************)
MaxTable == 2      \* rows of the game table passed to one call

ADVSTATNAMES == <<"eff", "astr", "orbp", "tovr", "efgp", "ftr">>
AdvStatSet == {ADVSTATNAMES[i] : i \in 1..Len(ADVSTATNAMES)}

TFeature == [a \in AdvStatSet |-> "T" \o a]
OFeature == [a \in AdvStatSet |-> "O" \o a]
CorrO == [a \in AdvStatSet |-> "Tcorro" \o a]
CorrD == [a \in AdvStatSet |-> "Tcorrd" \o a]

RatingKeys ==
    {"pace", "Tneteff", "Teff", "Oeff"} \cup {CorrO[a] : a \in AdvStatSet}
                                        \cup {CorrD[a] : a \in AdvStatSet}

\* the ratings of the one season the solver has rated
season_stats_dict ==
    [y \in {2020} |->
        [t \in Teams |->
            [k \in RatingKeys |->
                IF k = "pace" THEN 60 + t
                ELSE IF k = "Tneteff" THEN 7 * t - 10
                ELSE IF k = "Teff" THEN 100 + 3 * t
                ELSE IF k = "Oeff" THEN 100 - t
                ELSE IF k \in {CorrO[a] : a \in AdvStatSet} THEN 50 + 2 * t
                ELSE 40 + t]]]

\* mutant: the winner is always taken as the reference team
DoWinAlphabetical_winner(row) == TRUE

\* dowin = (row.WTeamID < row.LTeamID)
DoWinAlphabetical(row) == row["WTeamID"] < row["LTeamID"]

\* 'ANH'.find(WLoc) - 1: away -1, neutral 0, home 1
LocSign(wloc) == ANH_find(wloc) - 1

FeatureKeys ==
    {"result", "margin", "totscore", "date", "season", "gid", "tid1", "tid2",
     "rank1", "rank2", "poss", "pace1", "pace2", "HA", "effdiff", "effsum",
     "neteffsum", "raweffdiff"} \cup {TFeature[a] : a \in AdvStatSet}
                                \cup {OFeature[a] : a \in AdvStatSet}

AdvOf == [k \in {TFeature[a] : a \in AdvStatSet} \cup {OFeature[a] : a \in AdvStatSet} |->
             CHOOSE a \in AdvStatSet : k \in {TFeature[a], OFeature[a]}]

\* the values one row appends to the columns of data
FeatureRow(row, dowin) ==
    LET d == season_stats_dict[row["Season"]]
        mult == IF dowin THEN 1 ELSE -1
        id1 == IF dowin THEN row["WTeamID"] ELSE row["LTeamID"]
        id2 == IF dowin THEN row["LTeamID"] ELSE row["WTeamID"]
    IN  [k \in FeatureKeys |->
            IF k = "result" THEN (IF dowin THEN 1 ELSE 0)
            ELSE IF k = "margin" THEN (row["WScore"] - row["LScore"]) * mult
            ELSE IF k = "totscore" THEN row["WScore"] + row["LScore"]
            ELSE IF k = "date" THEN row["Date"]
            ELSE IF k = "season" THEN row["Season"]
            ELSE IF k = "gid" THEN row["gid"]
            ELSE IF k = "tid1" THEN id1
            ELSE IF k = "tid2" THEN id2
            ELSE IF k = "rank1" THEN (IF dowin THEN row["Wrank"] ELSE row["Lrank"])
            ELSE IF k = "rank2" THEN (IF dowin THEN row["Lrank"] ELSE row["Wrank"])
            ELSE IF k = "poss" THEN FloatDivOT(row["poss"], row["NumOT"])
            ELSE IF k = "pace1" THEN d[id1]["pace"]
            ELSE IF k = "pace2" THEN d[id2]["pace"]
            ELSE IF k = "HA" THEN LocSign(row["WLoc"]) * mult
            ELSE IF k = "effdiff" THEN d[id1]["Tneteff"] - d[id2]["Tneteff"]
            ELSE IF k = "effsum"
                 THEN d[id1]["Tcorroeff"] + d[id1]["Tcorrdeff"]
                      + d[id2]["Tcorroeff"] + d[id2]["Tcorrdeff"]
            ELSE IF k = "neteffsum"
                 THEN d[id1]["Tcorroeff"] - d[id1]["Tcorrdeff"]
                      + d[id2]["Tcorroeff"] - d[id2]["Tcorrdeff"]
            ELSE IF k = "raweffdiff"
                 THEN (d[id1]["Teff"] - d[id1]["Oeff"]) - (d[id2]["Teff"] - d[id2]["Oeff"])
            ELSE IF k = TFeature[AdvOf[k]]
                 THEN d[id1][CorrO[AdvOf[k]]] - d[id2][CorrO[AdvOf[k]]]
            ELSE d[id1][CorrD[AdvOf[k]]] - d[id2][CorrD[AdvOf[k]]]]

\* np.random.seed(random_seed); data = defaultdict(list)
TrainStart ==
    /\ tpc = "start"
    /\ tpc' = "loop"
    /\ irow' = 1
    /\ data' = <<>>
    /\ UNCHANGED <<sort, df>>

\* d = season_stats_dict[row.Season] with a season the dictionary lacks
TrainKeyError ==
    /\ tpc = "loop"
    /\ irow <= Len(df)
    /\ df[irow]["Season"] \notin DOMAIN season_stats_dict
    /\ tpc' = "raised"
    /\ UNCHANGED <<sort, df, irow, data>>

\* sort=='random': dowin = np.random.randint(2)
TrainRandom(dowin) ==
    /\ tpc = "loop"
    /\ irow <= Len(df)
    /\ df[irow]["Season"] \in DOMAIN season_stats_dict
    /\ sort = "random"
    /\ data' = Append(data, FeatureRow(df[irow], dowin = 1))
    /\ irow' = irow + 1
    /\ UNCHANGED <<tpc, sort, df>>

\* sort=='alphabetical'
TrainAlphabetical ==
    /\ tpc = "loop"
    /\ irow <= Len(df)
    /\ df[irow]["Season"] \in DOMAIN season_stats_dict
    /\ sort = "alphabetical"
    /\ data' = Append(data, FeatureRow(df[irow], DoWinAlphabetical(df[irow])))
    /\ irow' = irow + 1
    /\ UNCHANGED <<tpc, sort, df>>

\* else: raise Exception("Illegal sort parameter "+sort)
TrainIllegalSort ==
    /\ tpc = "loop"
    /\ irow <= Len(df)
    /\ df[irow]["Season"] \in DOMAIN season_stats_dict
    /\ sort \notin {"random", "alphabetical"}
    /\ tpc' = "raised"
    /\ UNCHANGED <<sort, df, irow, data>>

\* the loop is over: return pd.DataFrame(data, columns=columns)
TrainReturn ==
    /\ tpc = "loop"
    /\ irow > Len(df)
    /\ tpc' = "done"
    /\ UNCHANGED <<sort, df, irow, data>>

(***************************************************************************)
(* The game tables of the compiler's specification.                        *)
(***************************************************************************)
Rank(t) == IF t = 3 THEN <<>> ELSE <<5 * t>>

TrainRow(season, date, w, l) ==
    [c \in {"Season", "Date", "gid", "WTeamID", "LTeamID", "WScore", "LScore",
            "Wrank", "Lrank", "poss", "NumOT", "WLoc"} |->
        IF c = "Season" THEN season
        ELSE IF c = "Date" THEN date
        ELSE IF c = "gid" THEN get_gid(date, w, l)
        ELSE IF c = "WTeamID" THEN w
        ELSE IF c = "LTeamID" THEN l
        ELSE IF c = "WScore" THEN 70 + w
        ELSE IF c = "LScore" THEN 60 + l
        ELSE IF c = "Wrank" THEN Rank(w)
        ELSE IF c = "Lrank" THEN Rank(l)
        ELSE IF c = "poss" THEN PossColumn[PossKind(w, l)]
        ELSE IF c = "NumOT" THEN date - 1
        ELSE <<"H", "A", "N">>[w]]

\* every pairing of the three teams in the rated season, one game of an
\* unrated season
TrainRows ==
    {TrainRow(2020, 1, m[1], m[2]) : m \in Matchups} \cup {TrainRow(2019, 2, 1, 2)}

RECURSIVE TablesUpTo(_, _)
TablesUpTo(S, n) ==
    IF n = 0 THEN {<<>>}
    ELSE LET shorter == TablesUpTo(S, n - 1)
         IN  shorter \cup {Append(q, x) : q \in shorter, x \in S}

SortArgs == {"random", "alphabetical", "ranked"}

InitTrain ==
    /\ tpc = "start"
    /\ sort \in SortArgs
    /\ df \in TablesUpTo(TrainRows, MaxTable)
    /\ irow = 0
    /\ data = <<>>
    /\ ScrapeIdle
    /\ OrientIdle
    /\ StatIdle

NextTrain ==
    \/ TrainStart /\ UNCHANGED <<scrapeVars, orientVars, statVars>>
    \/ TrainKeyError /\ UNCHANGED <<scrapeVars, orientVars, statVars>>
    \/ \E dowin \in 0..1 : TrainRandom(dowin) /\ UNCHANGED <<scrapeVars, orientVars, statVars>>
    \/ TrainAlphabetical /\ UNCHANGED <<scrapeVars, orientVars, statVars>>
    \/ TrainIllegalSort /\ UNCHANGED <<scrapeVars, orientVars, statVars>>
    \/ TrainReturn /\ UNCHANGED <<scrapeVars, orientVars, statVars>>

SpecTrain == InitTrain /\ [][NextTrain]_vars

(***************************************************************************)
(* Properties of compile_training_data.                                    *)
(***************************************************************************)
\* the score of team t in a game row
ScoreOf(row, t) == IF t = row["WTeamID"] THEN row["WScore"] ELSE row["LScore"]

\* C8: with sort='alphabetical', in every feature row tid1 is the smaller
\* and tid2 the larger of the game's two team codes, result is 1 exactly
\* when tid1 is the winner, margin is tid1's score minus tid2's score, and
\* two games between the same two teams have the same tid1.
C8_AlphabeticalOrientation ==
    sort = "alphabetical" =>
        /\ \A i \in 1..Len(data) :
              /\ {data[i]["tid1"], data[i]["tid2"]} = {df[i]["WTeamID"], df[i]["LTeamID"]}
              /\ data[i]["tid1"] < data[i]["tid2"]
              /\ (data[i]["result"] = 1) <=> (data[i]["tid1"] = df[i]["WTeamID"])
              /\ data[i]["result"] \in {0, 1}
              /\ data[i]["margin"] =
                    ScoreOf(df[i], data[i]["tid1"]) - ScoreOf(df[i], data[i]["tid2"])
        /\ \A i, j \in 1..Len(data) :
              {data[i]["tid1"], data[i]["tid2"]} = {data[j]["tid1"], data[j]["tid2"]}
                  => data[i]["tid1"] = data[j]["tid1"]

\* C8 witness: two games between the same teams with opposite winners have
\* been compiled and returned.
C8_Witness ==
    /\ sort = "alphabetical"
    /\ tpc = "done"
    /\ Len(data) = 2
    /\ df[1]["WTeamID"] = df[2]["LTeamID"]
    /\ df[1]["LTeamID"] = df[2]["WTeamID"]
    /\ data[1]["result"] # data[2]["result"]

\* C9: with a sort mode other than 'random' and 'alphabetical' the call
\* never returns a feature table, whatever the game table, the empty one
\* included.
C9_IllegalSortNeverReturns ==
    sort \notin {"random", "alphabetical"} => tpc # "done"

====
